---- MODULE Spec2Model ----
(***************************************************************************)
(* A model of yacman2's YAMLConfigManager (src/yacman2/yacman.py): a       *)
(* mapping that mirrors a YAML file, guarded by a lock sentinel file.      *)
(*                                                                         *)
(* The file system is two maps, files (path -> document) and locks         *)
(* (path -> creator of the sentinel at make_lock_path(path), or Free).     *)
(* Each config object is a record of its Python attributes.  Every method  *)
(* is an operator from (object, files, locks) to the set of outcomes the   *)
(* method can end in, an outcome being the object, the files and the locks *)
(* as the method leaves them together with the exception it raised, if     *)
(* any; an action applies one method and commits one of its outcomes.      *)
(***************************************************************************)
EXTENDS Integers, FiniteSets, Sequences, TLC

VARIABLES
    files,   \* path -> document on disk
    locks,   \* path -> Free, or the object that created the lock sentinel
    obj,     \* object id -> the object's attributes
    scopes,  \* object id -> stack of open `with` blocks (writable at entry)
    last     \* the last call: operation, object, arguments, result

vars == <<files, locks, obj, scopes, last>>

----------------------------------------------------------------------------
(* Universe and bounds *)

Objs == {"A", "B"}
Paths == {"F", "G"}
None == "None"
Free == "free"

\* deepest nesting of `with` blocks on one object
MaxDepth == 2

DEFAULT_WAIT_TIME == 60

----------------------------------------------------------------------------
(* Values: every Python value is a record [t, v]; t is its type. *)

EmptyMap == [k \in {} |-> 0]
IntV(s) == [t |-> "int", v |-> s]
StrV(s) == [t |-> "str", v |-> s]
NullV == [t |-> "null", v |-> ""]
MapV(f) == [t |-> "map", v |-> f]
ListV(q) == [t |-> "list", v |-> q]

IsMap(x) == x.t = "map"
\* `isinstance(value, Mapping) and value`
IsNonEmptyMap(x) == x.t = "map" /\ DOMAIN x.v # {}

\* texts that YAML resolves to an integer
IntTokens == {"1", "2", "5"}
\* texts that YAML resolves to null
NullTokens == {"null", "~", ""}

Tok(s) == [t |-> "tok", v |-> s]

(* Keys of a Python dict are TLA+ strings: a str key is its text, the int  *)
(* key n is "#n".                                                          *)
IntKey(s) == CASE s = "1" -> "#1" [] s = "2" -> "#2" [] s = "5" -> "#5"
IntKeys == {IntKey(s) : s \in IntTokens}
\* str(key), and the text _custom_repr gives a key
KeyText(k) == IF k \in IntKeys THEN CHOOSE s \in IntTokens : IntKey(s) = k ELSE k
\* the key that the unpatched construct_mapping builds from a key's text
construct_key_org(text) == IF text \in IntTokens THEN IntKey(text) ELSE text
\* a loader that keeps the keys as construct_mapping builds them
construct_key_unpatched(text) == construct_key_org(text)
\* my_construct_mapping: int and float keys are replaced by their str()
construct_key(text) ==
    LET key == construct_key_org(text)
    IN  IF key \in IntKeys THEN KeyText(key) ELSE key

\* _custom_repr / render: the text of one value
RECURSIVE DumpValue(_)
DumpValue(x) ==
    IF IsNonEmptyMap(x)
    THEN MapV([t \in {KeyText(k) : k \in DOMAIN x.v} |->
                 DumpValue(x.v[CHOOSE k \in DOMAIN x.v : KeyText(k) = t])])
    ELSE IF x.t = "map" THEN Tok("{}")
    ELSE IF x.t = "null" THEN Tok("null")
    ELSE IF x.t = "list"
    THEN IF x.v = <<>> THEN Tok("[]")
         ELSE ListV([i \in DOMAIN x.v |->
                       IF x.v[i].t = "null" THEN Tok("None") ELSE Tok(x.v[i].v)])
    ELSE Tok(x.v)

\* yaml.safe_load of one node
RECURSIVE LoadNode(_)
LoadNode(n) ==
    IF n.t = "map"
    THEN MapV([k \in {construct_key(t) : t \in DOMAIN n.v} |->
                 LoadNode(n.v[CHOOSE t \in DOMAIN n.v : construct_key(t) = k])])
    ELSE IF n.t = "list" THEN ListV([i \in DOMAIN n.v |-> LoadNode(n.v[i])])
    ELSE IF n.v = "{}" THEN MapV(EmptyMap)
    ELSE IF n.v = "[]" THEN ListV(<<>>)
    ELSE IF n.v \in IntTokens THEN IntV(n.v)
    ELSE IF n.v \in NullTokens THEN NullV
    ELSE StrV(n.v)

(* Documents on disk: absent, an empty file, text YAML cannot parse, or a  *)
(* mapping of texts.                                                       *)
Absent == [st |-> "absent", doc |-> EmptyMap]
EmptyFile == [st |-> "empty", doc |-> EmptyMap]
Corrupt == [st |-> "corrupt", doc |-> EmptyMap]
Doc(d) == [st |-> "doc", doc |-> d]

\* to_yaml: the document written for data d (a function key -> value)
to_yaml(d) ==
    IF DOMAIN d = {} THEN Doc(EmptyMap)
    ELSE Doc(DumpValue(MapV(d)).v)

\* load_yaml: [res, val]; val is NoneVal for an empty file
NoneVal == [t |-> "none", v |-> EmptyMap]
load_yaml(f) ==
    IF f.st = "corrupt" THEN [res |-> "ParseError", val |-> NoneVal]
    ELSE IF f.st = "empty" THEN [res |-> "ok", val |-> NoneVal]
    ELSE [res |-> "ok", val |-> LoadNode(MapV(f.doc))]

\* os.path.exists(filepath)
Exists(fs, p) == fs[p].st # "absent"

----------------------------------------------------------------------------
(* deep_update(old, new): old and new are the contents of two mappings.    *)
(* Python raises (TypeError, AttributeError) when new holds a non-empty    *)
(* mapping at a key where old holds something that is not a mapping: the   *)
(* recursive call gets the scalar as its `old`.                            *)

RECURSIVE Raises(_, _)
\* the loop body raises at key k
KeyRaises(old, new, k) ==
    /\ IsNonEmptyMap(new[k])
    /\ k \in DOMAIN old
    /\ (~IsMap(old[k]) \/ Raises(old[k].v, new[k].v))

Raises(old, new) == \E k \in DOMAIN new : KeyRaises(old, new, k)

RECURSIVE MergeKey(_, _, _)
\* old[key] after the loop body ran for key k without raising
MergeKey(old, new, k) ==
    IF IsNonEmptyMap(new[k])
    THEN LET sub == IF k \in DOMAIN old THEN old[k].v ELSE EmptyMap
         IN  MapV([j \in DOMAIN sub \cup DOMAIN new[k].v |->
                    IF j \in DOMAIN new[k].v THEN MergeKey(sub, new[k].v, j)
                    ELSE sub[j]])
    ELSE new[k]

\* the returned mapping when no key raises
deep_update(old, new) ==
    [k \in DOMAIN old \cup DOMAIN new |->
        IF k \in DOMAIN new THEN MergeKey(old, new, k) ELSE old[k]]

(* What old (updated in place) can hold when deep_update raises: the keys  *)
(* iterated before the raising key f are merged, f's own mapping is partly *)
(* merged, the rest is untouched.  new is iterated in insertion order,     *)
(* which the model does not keep: every order is taken.                    *)
RECURSIVE PartialUpdates(_, _)
PartialUpdates(old, new) ==
    LET bad == {k \in DOMAIN new : KeyRaises(old, new, k)}
        good == DOMAIN new \ bad
        AtF(f) == IF IsMap(old[f])
                  THEN {MapV(s) : s \in PartialUpdates(old[f].v, new[f].v)}
                  ELSE {old[f]}
    IN  UNION { UNION { { [k \in DOMAIN old \cup P |->
                             IF k \in P THEN MergeKey(old, new, k)
                             ELSE IF k = f THEN sub
                             ELSE old[k]] : sub \in AtF(f) }
                        : P \in SUBSET good }
                : f \in bad }

----------------------------------------------------------------------------
(* Objects *)

\* the default arguments of __init__
DefaultArgs ==
    [entries |-> EmptyMap, filepath |-> None, yamldata |-> Absent,
     writable |-> FALSE, wait_max |-> DEFAULT_WAIT_TIME,
     skip_read_lock |-> FALSE, schema_source |-> None,
     validate_on_write |-> FALSE, create_file |-> FALSE]

(* The call of an object that is inside create_lock: the method, its       *)
(* filepath argument, the constructor's arguments and the path whose       *)
(* sentinel create_lock waits for.                                         *)
PendingCall(op, arg, a, path) ==
    [op |-> op, arg |-> arg, args |-> a, path |-> path]
NoPending == PendingCall("none", None, DefaultArgs, None)

\* an object id before its construction
Unborn ==
    [st |-> "unborn", filepath |-> None, wait_max |-> DEFAULT_WAIT_TIME,
     skip_read_lock |-> FALSE, schema_source |-> None,
     validate_on_write |-> FALSE, writable |-> FALSE,
     already_writable |-> FALSE, data |-> EmptyMap,
     \* AliasedYAMLConfigManager.aliases: alias -> key
     aliases |-> EmptyMap,
     \* the call that waits in create_lock, and the time it has waited
     pending |-> NoPending, waited |-> 0]

\* how a method ends: the object, the file system, the exception ("ok": none)
Out(s, fs, lk, r) == [self |-> s, files |-> fs, locks |-> lk, res |-> r]

(* ubiquerg.create_lock(filepath, wait_max): waits while the sentinel      *)
(* exists and raises RuntimeError when it still does after wait_max; else  *)
(* creates it.  A call that finds the sentinel ends in the timeout: a wait *)
(* that the holder ends in time is the call made after the release.        *)
LockTimeout == "RuntimeError"
CanLock(lk, p) == lk[p] = Free
create_lock(lk, p, id) == [lk EXCEPT ![p] = id]
(* Paths in a directory that cannot be written to: the creation of a      *)
(* sentinel or of a file there is refused with PermissionError, which      *)
(* create_lock and open() raise to their caller.                           *)
ReadOnlyPaths == {"R"}
Refused(p) == p \in ReadOnlyPaths
PermissionError == "PermissionError"
\* a removal that leaves the sentinel where it is
remove_lock_noop(lk, p) == lk
\* ubiquerg.remove_lock / _remove_lock: remove the sentinel if it exists
remove_lock(lk, p) == [lk EXCEPT ![p] = Free]

\* a merge in which the loaded content wins over the entries
InitData_contents_win(s, a, contents, fs, lk) ==
    LET base == IF contents.t = "none" THEN EmptyMap ELSE contents.v
        merged == [k \in DOMAIN base \cup DOMAIN a.entries |->
                     IF k \in DOMAIN base THEN base[k] ELSE a.entries[k]]
    IN  Out([s EXCEPT !.data = merged], fs, lk,
            IF a.schema_source # None THEN "AttributeError" ELSE "ok")

\* lines 147-157 and 158-169: merge the entries, store data, load the schema
InitData(s, a, contents, fs, lk) ==
    LET base == IF contents.t = "none" THEN EmptyMap ELSE contents.v
        merged == [k \in DOMAIN base \cup DOMAIN a.entries |->
                     IF k \in DOMAIN a.entries THEN a.entries[k] ELSE base[k]]
        s1 == [s EXCEPT !.data = merged]
    IN  IF a.schema_source # None
        THEN \* getattr(self, "__internal"): no such attribute
             Out(s1, fs, lk, "AttributeError")
        ELSE Out(s1, fs, lk, "ok")

\* lines 122-131: writable is kept only when a filepath is given
init_writable_as_requested(a) == a.writable
init_writable(a) == a.writable /\ a.filepath # None

\* line 133: the file is locked for the time of the load
needs_read_lock_never(a, writable, fs) == FALSE
needs_read_lock(a, writable, fs) ==
    ~a.skip_read_lock /\ ~writable /\ Exists(fs, a.filepath)

\* lines 139-145: the file does not exist
missing_file_always_creates(s, a, fs, lk) ==
    InitData(s, a, MapV(EmptyMap), [fs EXCEPT ![a.filepath] = EmptyFile], lk)
missing_file(s, a, fs, lk) ==
    IF a.create_file /\ Refused(a.filepath)
    THEN Out(s, fs, lk, PermissionError)
    ELSE IF a.create_file
    THEN InitData(s, a, MapV(EmptyMap), [fs EXCEPT ![a.filepath] = EmptyFile], lk)
    ELSE Out(s, fs, lk, "FileNotFoundError")

\* YAMLConfigManager.__init__
YcmInit(id, self, a, fs, lk) ==
    LET fp == a.filepath
        s1 == [self EXCEPT !.filepath = fp, !.wait_max = a.wait_max,
                           !.skip_read_lock = a.skip_read_lock,
                           !.schema_source = a.schema_source,
                           !.validate_on_write = a.validate_on_write,
                           !.writable = a.writable,
                           !.already_writable = a.writable]
        \* line 123: the write lock is taken
        locks_file == a.writable /\ fp # None
        \* the local `writable` after lines 122-131
        writable == init_writable(a)
        s2 == [s1 EXCEPT !.writable = writable]
    IN  IF locks_file /\ ~CanLock(lk, fp) THEN Out(s1, fs, lk, LockTimeout)
        ELSE IF locks_file /\ Refused(fp) THEN Out(s1, fs, lk, PermissionError)
        ELSE
        LET lk1 == IF locks_file THEN create_lock(lk, fp, id) ELSE lk
        IN  IF fp # None
            THEN IF needs_read_lock(a, writable, fs)
                 THEN IF ~CanLock(lk1, fp) THEN Out(s2, fs, lk1, LockTimeout)
                      ELSE IF Refused(fp) THEN Out(s2, fs, lk1, PermissionError)
                      ELSE LET ld == load_yaml(fs[fp])
                           IN  IF ld.res # "ok"
                               THEN Out(s2, fs, create_lock(lk1, fp, id), ld.res)
                               ELSE InitData(s2, a, ld.val, fs,
                                         remove_lock(create_lock(lk1, fp, id), fp))
                 ELSE IF Exists(fs, fp)
                 THEN LET ld == load_yaml(fs[fp])
                      IN  IF ld.res # "ok" THEN Out(s2, fs, lk1, ld.res)
                          ELSE InitData(s2, a, ld.val, fs, lk1)
                 ELSE missing_file(s2, a, fs, lk1)
            ELSE IF a.yamldata.st \notin {"absent", "empty"}
            THEN LET ld == load_yaml(a.yamldata)
                 IN  IF ld.res # "ok" THEN Out(s2, fs, lk1, ld.res)
                     ELSE InitData(s2, [a EXCEPT !.entries = EmptyMap],
                                   ld.val, fs, lk1)
            ELSE InitData(s2, a, MapV(EmptyMap), fs, lk1)

\* _check_filepath: TypeError unless the filepath is a str
check_filepath_raises(fp) == fp = None

\* exceptions that `except OSError` catches
OSErrors == {"FileNotFoundError", "OSError", PermissionError}

(* YAMLConfigManager._reinit: run __init__ again on the same object with   *)
(* only filepath and skip_read_lock given, then lay the former data over   *)
(* the loaded data.                                                        *)
reinit(id, self, fparg, fs, lk) ==
    LET fp == IF fparg # None THEN fparg ELSE self.filepath
    IN  IF fp = None THEN {Out(self, fs, lk, "ok")}
        ELSE
        LET local_data == self.data
            r == YcmInit(id, self,
                         [DefaultArgs EXCEPT !.filepath = fp,
                                             !.skip_read_lock = TRUE],
                         fs, lk)
        IN  IF r.res # "ok" THEN {r}
            ELSE IF Raises(r.self.data, local_data)
            THEN {Out([r.self EXCEPT !.data = d], r.files, r.locks, "TypeError")
                    : d \in PartialUpdates(r.self.data, local_data)}
            ELSE {Out([r.self EXCEPT !.data = deep_update(r.self.data, local_data)],
                      r.files, r.locks, "ok")}

\* YAMLConfigManager.make_readonly (its return value: MadeReadonly)
make_readonly(self, fs, lk) ==
    LET s1 == [self EXCEPT !.writable = FALSE]
    IN  IF check_filepath_raises(self.filepath) THEN Out(s1, fs, lk, "TypeError")
        ELSE Out(s1, fs, remove_lock(lk, self.filepath), "ok")

\* _remove_lock's return value: whether the sentinel was found and removed
MadeReadonly(self, lk) == self.filepath # None /\ lk[self.filepath] # Free

\* an acquisition that takes the sentinel without waiting for its holder
acquire_no_wait(id, s1, fs, lk) ==
    LET fp == s1.filepath
        Writable(r) == Out([r.self EXCEPT !.writable = TRUE], r.files, r.locks, "ok")
    IN  IF check_filepath_raises(fp) THEN {Out(s1, fs, lk, "TypeError")}
        ELSE UNION {
               IF r.res = "ok" \/ r.res \in OSErrors THEN {Writable(r)}
               ELSE {IF q.res = "ok" THEN Writable(q) ELSE q
                       : q \in reinit(id, r.self, None, r.files, r.locks)}
               : r \in reinit(id, s1, fp, fs, create_lock(lk, fp, id)) }

\* an acquisition that goes on without a sentinel when its creation is refused
acquire_warns(id, s1, fs, lk) ==
    LET fp == s1.filepath
        Writable(r) == Out([r.self EXCEPT !.writable = TRUE], r.files, r.locks, "ok")
    IN  IF check_filepath_raises(fp) THEN {Out(s1, fs, lk, "TypeError")}
        ELSE IF ~CanLock(lk, fp) THEN {Out(s1, fs, lk, LockTimeout)}
        ELSE UNION {
               IF r.res = "ok" \/ r.res \in OSErrors THEN {Writable(r)}
               ELSE {IF q.res = "ok" THEN Writable(q) ELSE q
                       : q \in reinit(id, r.self, None, r.files, r.locks)}
               : r \in reinit(id, s1, fp, fs,
                              IF Refused(fp) THEN lk ELSE create_lock(lk, fp, id)) }

\* make_writable from line 422 on: the object is not writable
acquire(id, s1, fs, lk) ==
    LET fp == s1.filepath
        Writable(r) == Out([r.self EXCEPT !.writable = TRUE], r.files, r.locks, "ok")
    IN  IF check_filepath_raises(fp) THEN {Out(s1, fs, lk, "TypeError")}
        ELSE IF ~CanLock(lk, fp) THEN {Out(s1, fs, lk, LockTimeout)}
        ELSE IF Refused(fp) THEN {Out(s1, fs, lk, PermissionError)}
        ELSE UNION {
               IF r.res = "ok" \/ r.res \in OSErrors THEN {Writable(r)}
               ELSE {IF q.res = "ok" THEN Writable(q) ELSE q
                       : q \in reinit(id, r.self, None, r.files, r.locks)}
               : r \in reinit(id, s1, fp, fs, create_lock(lk, fp, id)) }

\* the filepath argument replaces the object's filepath (lines 414-416)
reset_filepath(self, fparg) ==
    IF fparg # None /\ fparg # self.filepath
    THEN [self EXCEPT !.filepath = fparg] ELSE self

\* a make_writable that sets the flag before it checks the filepath
make_writable_flag_first(id, self, fparg, fs, lk) ==
    LET s1 == reset_filepath(self, fparg)
    IN  IF s1.writable THEN {Out(s1, fs, lk, "ok")}
        ELSE IF check_filepath_raises(s1.filepath)
        THEN {Out([s1 EXCEPT !.writable = TRUE], fs, lk, "TypeError")}
        ELSE acquire(id, s1, fs, lk)

\* YAMLConfigManager.make_writable
make_writable(id, self, fparg, fs, lk) ==
    LET s1 == reset_filepath(self, fparg)
    IN  IF s1.writable THEN {Out(s1, fs, lk, "ok")}
        ELSE acquire(id, s1, fs, lk)

\* YAMLConfigManager.__enter__
enter(id, self, fs, lk) ==
    make_writable(id,
                  IF self.writable THEN [self EXCEPT !.already_writable = TRUE]
                  ELSE self,
                  None, fs, lk)

\* YAMLConfigManager.__exit__
exit(self, fs, lk) ==
    IF self.already_writable
    THEN Out([self EXCEPT !.writable = TRUE, !.already_writable = TRUE],
             fs, lk, "ok")
    ELSE make_readonly(self, fs, lk)

(* Schemas: jsonschema's validate is given the data and a schema; the      *)
(* schemas here list required top-level keys and keys whose string values  *)
(* must match the pattern ^/ .  NoSchema is schema=None.                   *)
NoSchema == [given |-> FALSE, required |-> {}, absolute |-> {}]
Schema(keys) == [given |-> TRUE, required |-> keys, absolute |-> {}]
\* the schema {properties: {k: {pattern: ^/}}} for the keys k
PathSchema(keys) == [given |-> TRUE, required |-> {}, absolute |-> keys]
\* the texts that match ^/
IsAbsolute(text) == text \in {"/abs", "/home/user", "/v"}
SchemaValid(d, schema) ==
    /\ schema.required \subseteq DOMAIN d
    /\ \A k \in schema.absolute \cap DOMAIN d :
          d[k].t = "str" => IsAbsolute(d[k].v)

\* YAMLConfigManager.to_dict: self.data, whatever expand is
to_dict(self, expand) == self.data

\* YAMLConfigManager.validate
validate(self, schema, fs, lk) ==
    IF ~schema.given
    THEN \* getattr(self, "__internal"): no such attribute
         Out(self, fs, lk, "AttributeError")
    ELSE IF SchemaValid(to_dict(self, TRUE), schema) THEN Out(self, fs, lk, "ok")
    ELSE IF self.filepath # None
    THEN LET r == make_readonly(self, fs, lk)
         IN  Out(r.self, r.files, r.locks, "ValidationError")
    ELSE Out(self, fs, lk, "ValidationError")

\* a write to an explicit filepath that leaves its sentinel behind
write_path_keeps_lock(id, self, fparg, fs, lk) ==
    IF Exists(fs, fparg) /\ lk[fparg] # Free THEN Out(self, fs, lk, "OSError")
    ELSE IF ~CanLock(lk, fparg) THEN Out(self, fs, lk, LockTimeout)
    ELSE Out(self, [fs EXCEPT ![fparg] = to_yaml(self.data)],
             create_lock(lk, fparg, id), "ok")

\* write, lines 272-288: an explicit filepath
write_path(id, self, fparg, fs, lk) ==
    IF Exists(fs, fparg) /\ lk[fparg] # Free THEN Out(self, fs, lk, "OSError")
    ELSE IF ~CanLock(lk, fparg) THEN Out(self, fs, lk, LockTimeout)
    ELSE IF Refused(fparg) THEN Out(self, fs, lk, PermissionError)
    ELSE Out(self, [fs EXCEPT ![fparg] = to_yaml(self.data)],
             remove_lock(create_lock(lk, fparg, id), fparg), "ok")

\* a write to the own file that gives the lock back once the file is written
write_own_releases(self, schema, fs, lk) ==
    IF check_filepath_raises(self.filepath) THEN Out(self, fs, lk, "TypeError")
    ELSE make_readonly(self, [fs EXCEPT ![self.filepath] = to_yaml(self.data)],
                       lk)

\* write, lines 297-312: no filepath, after the writable check
write_own(self, schema, fs, lk) ==
    LET v == IF schema.given \/ self.validate_on_write
             THEN validate(self, schema, fs, lk)
             ELSE Out(self, fs, lk, "ok")
    IN  IF v.res # "ok" THEN v
        ELSE IF check_filepath_raises(self.filepath)
        THEN Out(self, fs, lk, "TypeError")
        ELSE IF Refused(self.filepath)
        THEN \* open(filepath, "w")
             Out(self, fs, lk, PermissionError)
        ELSE Out(self, [fs EXCEPT ![self.filepath] = to_yaml(self.data)],
                 lk, "ok")

\* a write without the check of the writable flag
write_unguarded(id, self, fparg, schema, fs, lk) ==
    IF fparg # None THEN write_path(id, self, fparg, fs, lk)
    ELSE write_own(self, schema, fs, lk)

\* YAMLConfigManager.write(filepath=fparg, schema=schema)
write(id, self, fparg, schema, fs, lk) ==
    IF fparg # None THEN write_path(id, self, fparg, fs, lk)
    ELSE IF ~self.writable THEN Out(self, fs, lk, "OSError")
    ELSE write_own(self, schema, fs, lk)

----------------------------------------------------------------------------
(* Item access and the expansion accessor *)

\* how an access to data ends: the data and the exception ("ok": none)
DataOut(d, r) == [data |-> d, res |-> r]

\* the mapping d without key k
Without(d, k) == [j \in DOMAIN d \ {k} |-> d[j]]

\* YAMLConfigManager.__getitem__
getitem(d, key) ==
    IF key \in DOMAIN d THEN DataOut(d, "ok") ELSE DataOut(d, "KeyError")

\* dict values are unhashable, and so are lists
Hashable(x) == x.t \notin {"map", "list"}
\* the dict key that a hashable value is
ValueKey(x) ==
    IF x.t = "str" THEN x.v ELSE IF x.t = "int" THEN IntKey(x.v) ELSE None

(* YAMLConfigManager.__delitem__: the value is read, the key is deleted,   *)
(* and then self.pop(value, None) looks the value up as a key and, when it *)
(* is one, deletes it through __delitem__ again.                           *)
RECURSIVE delitem(_, _)
delitem(d, key) ==
    IF key \notin DOMAIN d THEN DataOut(d, "KeyError")
    ELSE LET value == d[key]
             d1 == Without(d, key)
         IN  IF ~Hashable(value) THEN DataOut(d1, "TypeError")
             ELSE IF ValueKey(value) \notin DOMAIN d1 THEN DataOut(d1, "ok")
             ELSE delitem(d1, ValueKey(value))

\* ubiquerg.expandpath: environment variables and the user's home
expandpath(text) ==
    IF text = "~" THEN "/home/user" ELSE IF text = "$V" THEN "/v" ELSE text

\* _safely_expand_path: the value returned for stored value x
RECURSIVE safely_expand_path(_)
safely_expand_path(x) ==
    IF x.t = "str" THEN StrV(expandpath(x.v))
    ELSE IF x.t = "map"
    THEN MapV([k \in DOMAIN x.v |-> safely_expand_path(x.v[k])])
    ELSE x

(* _safely_expand_path returns a new str for a str and a new dict for a    *)
(* mapping; any other value is returned as it is, the stored object.       *)
ReturnsStored(x) == x.t \notin {"str", "map"}

\* the stored value at a path of keys (NoneVal: no such path)
RECURSIVE ValueAt(_, _)
ValueAt(x, path) ==
    IF path = <<>> THEN x
    ELSE IF x.t # "map" \/ path[1] \notin DOMAIN x.v THEN NoneVal
    ELSE ValueAt(x.v[path[1]], Tail(path))

\* the stored value x with the value at path replaced by y
RECURSIVE ReplaceAt(_, _, _)
ReplaceAt(x, path, y) ==
    IF path = <<>> THEN y
    ELSE MapV([x.v EXCEPT ![path[1]] = ReplaceAt(@, Tail(path), y)])

(* self.exp[k1]...[kn].append(e): the list reached through the expanded    *)
(* copy is appended to; data changes when that list is the stored one.     *)
exp_append(d, path, e) ==
    LET stored == ValueAt(MapV(d), path)
        got == safely_expand_path(stored)
    IN  IF stored.t = "none" THEN DataOut(d, "KeyError")
        ELSE IF got.t # "list" THEN DataOut(d, "AttributeError")
        ELSE IF ReturnsStored(stored)
        THEN DataOut(ReplaceAt(MapV(d), path, ListV(Append(stored.v, e))).v, "ok")
        ELSE DataOut(d, "ok")

(* self.exp[k1]...[kn][k] = v: the mapping reached through the expanded    *)
(* copy gets an item; data changes when that mapping is the stored one.    *)
exp_setitem(d, path, k, v) ==
    LET stored == ValueAt(MapV(d), path)
        got == safely_expand_path(stored)
    IN  IF stored.t = "none" THEN DataOut(d, "KeyError")
        ELSE IF got.t # "map" THEN DataOut(d, "TypeError")
        ELSE IF ReturnsStored(stored)
        THEN DataOut(ReplaceAt(MapV(d), path,
                       MapV([j \in DOMAIN stored.v \cup {k} |->
                               IF j = k THEN v ELSE stored.v[j]])).v, "ok")
        ELSE DataOut(d, "ok")

----------------------------------------------------------------------------
(* The alias layer: AliasedYAMLConfigManager (alias.py) *)

\* the keyword parameters of YAMLConfigManager.__init__
InitKeywords ==
    {"entries", "filepath", "yamldata", "writable", "wait_max",
     "skip_read_lock", "schema_source", "validate_on_write", "create_file"}

\* the keywords that AliasedYAMLConfigManager.__init__ passes to it
SuperInitKeywords ==
    {"entries", "filepath", "yamldata", "locked", "wait_max", "skip_read_lock"}

\* the loop that turns the aliases mapping (key -> aliases) into alias -> key
AliasTable(raw) ==
    [al \in UNION {raw[k] : k \in DOMAIN raw} |->
        CHOOSE k \in DOMAIN raw : al \in raw[k]]

(* AliasedYAMLConfigManager.__init__: the parent's __init__ is called with *)
(* the keywords of SuperInitKeywords, which raises TypeError for a keyword *)
(* that it does not have, before any attribute is set; after it the alias  *)
(* table is built.                                                         *)
AliasedInit(id, self, a, raw, fs, lk) ==
    IF ~(SuperInitKeywords \subseteq InitKeywords)
    THEN Out(self, fs, lk, "TypeError")
    ELSE LET r == YcmInit(id, self,
                          [DefaultArgs EXCEPT !.entries = a.entries,
                                              !.filepath = a.filepath,
                                              !.yamldata = a.yamldata,
                                              !.wait_max = a.wait_max,
                                              !.skip_read_lock = a.skip_read_lock],
                          fs, lk)
         IN  IF r.res # "ok" THEN r
             ELSE [r EXCEPT !.self.aliases = AliasTable(raw)]

\* how get_key ends: the key and the exception ("ok": none)
KeyOut(k, r) == [key |-> k, res |-> r]

\* AliasedYAMLConfigManager.get_key
get_key(aliases, alias) ==
    IF alias \in DOMAIN aliases THEN KeyOut(aliases[alias], "ok")
    ELSE KeyOut(None, "UndefinedAliasError")

\* how an item access ends: the value returned and the exception
ValOut(v, r) == [val |-> v, res |-> r]

(* AliasedYAMLConfigManager.__getitem__(item, expand=True): self.exp[item] *)
(* and, on KeyError, self.exp[get_key(item)].                              *)
aliased_getitem(d, aliases, item) ==
    LET e == safely_expand_path(MapV(d)).v
        k == get_key(aliases, item)
    IN  IF item \in DOMAIN e THEN ValOut(e[item], "ok")
        ELSE IF k.res # "ok" THEN ValOut(NoneVal, "KeyError")
        ELSE IF k.key \in DOMAIN e THEN ValOut(e[k.key], "ok")
        ELSE ValOut(NoneVal, "KeyError")

(* AliasedYAMLConfigManager.__delitem__: the name is resolved as an alias  *)
(* first and as a literal key otherwise, and the parent's __delitem__ is   *)
(* run on the result.  There `self[key]` is the alias-aware __getitem__,   *)
(* `del self.data[key]` deletes the key, and self.pop(value, None) looks   *)
(* the value up with self[value] and deletes it with `del self[value]`.    *)
RECURSIVE aliased_delitem(_, _, _)
aliased_delitem(d, aliases, name) ==
    LET k == get_key(aliases, name)
        key == IF k.res = "ok" THEN k.key ELSE name
        got == aliased_getitem(d, aliases, key)
        d1 == Without(d, key)
    IN  IF got.res # "ok" THEN DataOut(d, "KeyError")
        ELSE IF key \notin DOMAIN d THEN DataOut(d, "KeyError")
        ELSE IF ~Hashable(got.val) THEN DataOut(d1, "TypeError")
        ELSE IF aliased_getitem(d1, aliases, ValueKey(got.val)).res # "ok"
        THEN DataOut(d1, "ok")
        ELSE aliased_delitem(d1, aliases, ValueKey(got.val))

\* the elements of a list
Elems(q) == {q[i] : i \in 1..Len(q)}

\* a loop that binds every alias of the list, bound or not
bind_aliases_always(al, key, aliases, overwrite) ==
    [a \in DOMAIN al \cup Elems(aliases) |->
        IF a \in Elems(aliases) THEN key ELSE al[a]]

(* set_aliases, lines 241-249: the loop over the list of aliases; an alias *)
(* that is in the table is bound to key only with overwrite.               *)
RECURSIVE bind_aliases(_, _, _, _)
bind_aliases(al, key, aliases, overwrite) ==
    IF aliases = <<>> THEN al
    ELSE LET alias == Head(aliases)
             al1 == IF alias \in DOMAIN al /\ ~overwrite THEN al
                    ELSE [a \in DOMAIN al \cup {alias} |->
                            IF a = alias THEN key ELSE al[a]]
         IN  bind_aliases(al1, key, Tail(aliases), overwrite)

\* AliasedYAMLConfigManager.get_aliases: the aliases bound to key
get_aliases(al, key) == {a \in DOMAIN al : al[a] = key}

(* AliasedYAMLConfigManager.set_aliases: the alias table after the call;   *)
(* with reset_key the aliases of key are deleted first.                    *)
set_aliases(al, key, aliases, overwrite, reset_key) ==
    LET al1 == IF reset_key
               THEN [a \in DOMAIN al \ get_aliases(al, key) |-> al[a]]
               ELSE al
    IN  bind_aliases(al1, key, aliases, overwrite)

----------------------------------------------------------------------------
(* Actions: one call of one method on one object *)

(* The record of a call: the method, the object, the exception raised     *)
(* ("ok": none), the filepath argument, whether a schema was passed, the   *)
(* object's writable flag before the call, make_readonly's return value,   *)
(* for __exit__ whether the block it closes was entered writable, the      *)
(* constructor's arguments, the key of an item access, the value that an   *)
(* alias-aware item access returned and the arguments of set_aliases.      *)
\* the arguments aliases, overwrite and reset_key of set_aliases
Opts(aliases, overwrite, reset_key) ==
    [aliases |-> aliases, overwrite |-> overwrite, reset_key |-> reset_key]
NoOpts == Opts(<<>>, FALSE, FALSE)

Call(op, o, res, arg, sch, w0, ret) ==
    [op |-> op, o |-> o, res |-> res, arg |-> arg, sch |-> sch,
     w0 |-> w0, ret |-> ret, ew |-> FALSE, args |-> DefaultArgs,
     key |-> None, val |-> NoneVal, opts |-> NoOpts]

Commit(o, r) ==
    /\ obj' = [obj EXCEPT ![o] = r.self]
    /\ files' = r.files
    /\ locks' = r.locks

Live(o) == obj[o].st = "live"

\* o = YAMLConfigManager(**a); a failed construction leaves garbage
Construct(o, a) ==
    /\ obj[o].st = "unborn"
    /\ LET r == YcmInit(o, Unborn, a, files, locks)
       IN  /\ Commit(o, [r EXCEPT !.self.st =
                                   IF r.res = "ok" THEN "live" ELSE "failed"])
           /\ last' = [Call("construct", o, r.res, a.filepath, FALSE,
                            a.writable, FALSE) EXCEPT !.args = a]
    /\ UNCHANGED scopes

\* `del o` / garbage collection: YAMLConfigManager.__del__
Destroy(o) ==
    /\ obj[o].st \in {"live", "failed"}
    /\ scopes[o] = <<>>
    /\ LET self == obj[o]
           r == IF self.filepath # None /\ self.writable
                THEN make_readonly(self, files, locks)
                ELSE Out(self, files, locks, "ok")
       IN  /\ Commit(o, [r EXCEPT !.self = Unborn])
           /\ last' = Call("del", o, r.res, None, FALSE, self.writable, FALSE)
    /\ UNCHANGED scopes

\* o[k] = v
SetItem(o, k, v) ==
    /\ Live(o)
    /\ obj' = [obj EXCEPT ![o].data =
                  [j \in DOMAIN @ \cup {k} |-> IF j = k THEN v ELSE @[j]]]
    /\ last' = Call("setitem", o, "ok", None, FALSE, obj[o].writable, FALSE)
    /\ UNCHANGED <<files, locks, scopes>>

\* an access to o's data that ends as r
Access(op, o, key, r) ==
    /\ Live(o)
    /\ obj' = [obj EXCEPT ![o].data = r.data]
    /\ last' = [Call(op, o, r.res, None, FALSE, obj[o].writable, FALSE)
                  EXCEPT !.key = key]
    /\ UNCHANGED <<files, locks, scopes>>

\* o[k]
GetItem(o, k) == Access("getitem", o, k, getitem(obj[o].data, k))

\* del o[k]
DelItem(o, k) == Access("delitem", o, k, delitem(obj[o].data, k))

\* o.exp[k1]...[kn].append(e)
ExpAppend(o, path, e) ==
    Access("exp_append", o, path[1], exp_append(obj[o].data, path, e))

\* o.exp[k1]...[kn][k] = v
ExpSetItem(o, path, k, v) ==
    Access("exp_setitem", o, k, exp_setitem(obj[o].data, path, k, v))

\* o.make_writable(fparg)
MakeWritable(o, fparg) ==
    /\ Live(o)
    /\ \E r \in make_writable(o, obj[o], fparg, files, locks) :
          /\ Commit(o, r)
          /\ last' = Call("make_writable", o, r.res, fparg, FALSE,
                          obj[o].writable, FALSE)
    /\ UNCHANGED scopes

\* o.make_readonly()
MakeReadonly(o) ==
    /\ Live(o)
    /\ LET r == make_readonly(obj[o], files, locks)
       IN  /\ Commit(o, r)
           /\ last' = Call("make_readonly", o, r.res, None, FALSE,
                           obj[o].writable,
                           r.res = "ok" /\ MadeReadonly(obj[o], locks))
    /\ UNCHANGED scopes

\* `with o:` is entered; the block is open only if __enter__ returned
Enter(o) ==
    /\ Live(o)
    /\ Len(scopes[o]) < MaxDepth
    /\ \E r \in enter(o, obj[o], files, locks) :
          /\ Commit(o, r)
          /\ last' = Call("enter", o, r.res, None, FALSE, obj[o].writable, FALSE)
          /\ scopes' = IF r.res = "ok"
                       THEN [scopes EXCEPT ![o] = Append(@, obj[o].writable)]
                       ELSE scopes

\* the innermost `with o:` block is left, normally or by an exception
Exit(o) ==
    /\ Live(o)
    /\ scopes[o] # <<>>
    /\ LET r == exit(obj[o], files, locks)
       IN  /\ Commit(o, r)
           /\ last' = [Call("exit", o, r.res, None, FALSE, obj[o].writable,
                            FALSE)
                         EXCEPT !.ew = scopes[o][Len(scopes[o])]]
    /\ scopes' = [scopes EXCEPT ![o] = SubSeq(@, 1, Len(@) - 1)]

\* o.validate(schema)
Validate(o, schema) ==
    /\ Live(o)
    /\ LET r == validate(obj[o], schema, files, locks)
       IN  /\ Commit(o, r)
           /\ last' = Call("validate", o, r.res, None, schema.given,
                           obj[o].writable, FALSE)
    /\ UNCHANGED scopes

\* o.write(fparg, schema)
Write(o, fparg, schema) ==
    /\ Live(o)
    /\ LET r == write(o, obj[o], fparg, schema, files, locks)
       IN  /\ Commit(o, r)
           /\ last' = Call("write", o, r.res, fparg, schema.given,
                           obj[o].writable, FALSE)
    /\ UNCHANGED scopes

\* o = AliasedYAMLConfigManager(**a, aliases=raw)
ConstructAliased(o, a, raw) ==
    /\ obj[o].st = "unborn"
    /\ LET r == AliasedInit(o, Unborn, a, raw, files, locks)
       IN  /\ Commit(o, [r EXCEPT !.self.st =
                                   IF r.res = "ok" THEN "live" ELSE "failed"])
           /\ last' = [Call("construct_aliased", o, r.res, a.filepath, FALSE,
                            FALSE, FALSE) EXCEPT !.args = a]
    /\ UNCHANGED scopes

\* o[name] on an AliasedYAMLConfigManager
AliasedGetItem(o, name) ==
    /\ Live(o)
    /\ LET r == aliased_getitem(obj[o].data, obj[o].aliases, name)
       IN  last' = [Call("aliased_getitem", o, r.res, None, FALSE,
                         obj[o].writable, FALSE)
                      EXCEPT !.key = name, !.val = r.val]
    /\ UNCHANGED <<obj, files, locks, scopes>>

\* del o[name] on an AliasedYAMLConfigManager
AliasedDelItem(o, name) ==
    Access("aliased_delitem", o, name,
           aliased_delitem(obj[o].data, obj[o].aliases, name))

\* o.set_aliases(key, aliases, overwrite, reset_key)
SetAliases(o, key, aliases, overwrite, reset_key) ==
    /\ Live(o)
    /\ obj' = [obj EXCEPT ![o].aliases =
                  set_aliases(@, key, aliases, overwrite, reset_key)]
    /\ last' = [Call("set_aliases", o, "ok", None, FALSE, obj[o].writable,
                     FALSE)
                  EXCEPT !.key = key,
                         !.opts = Opts(aliases, overwrite, reset_key)]
    /\ UNCHANGED <<files, locks, scopes>>

NoCall == Call("none", "A", "ok", None, FALSE, FALSE, FALSE)

----------------------------------------------------------------------------
(* Spec: one object and two paths.  F holds an empty mapping, G is absent. *)

Keys == {"a"}
Values == {IntV("1"), IntV("2")}
\* the schema of the configuration: key "a" is required
ConfigSchema == Schema({"a"})

Init ==
    /\ files = [p \in Paths |-> IF p = "F" THEN to_yaml(EmptyMap) ELSE Absent]
    /\ locks = [p \in Paths |-> Free]
    /\ obj = [o \in Objs |-> Unborn]
    /\ scopes = [o \in Objs |-> <<>>]
    /\ last = NoCall

\* the path of the schema file
SchemaPath == "S"

ArgSet ==
    {[DefaultArgs EXCEPT !.filepath = p, !.writable = w,
                         !.validate_on_write = v, !.schema_source = ss]
       : p \in Paths \cup {None}, w \in BOOLEAN, v \in BOOLEAN,
         ss \in {None, SchemaPath}}

Next ==
    \E o \in {"A"} :
        \/ \E a \in ArgSet : Construct(o, a)
        \/ Destroy(o)
        \/ \E k \in Keys, v \in Values : SetItem(o, k, v)
        \/ \E p \in Paths \cup {None} : MakeWritable(o, p)
        \/ MakeReadonly(o)
        \/ Enter(o)
        \/ Exit(o)
        \/ \E sch \in {NoSchema, ConfigSchema} : Validate(o, sch)
        \/ \E p \in Paths \cup {None}, sch \in {NoSchema, ConfigSchema} :
              Write(o, p, sch)

Spec == Init /\ [][Next]_vars

----------------------------------------------------------------------------
(* SpecScope: one object on F, whose filepath never changes: scopes,       *)
(* edits, validation and writes.                                           *)

ScopeArgs ==
    {[DefaultArgs EXCEPT !.filepath = "F", !.writable = w] : w \in BOOLEAN}

NextScope ==
    \E o \in {"A"} :
        \/ \E a \in ScopeArgs : Construct(o, a)
        \/ Destroy(o)
        \/ \E k \in Keys, v \in Values : SetItem(o, k, v)
        \/ MakeWritable(o, None)
        \/ MakeReadonly(o)
        \/ Enter(o)
        \/ Exit(o)
        \/ Validate(o, ConfigSchema)
        \/ \E sch \in {NoSchema, ConfigSchema} : Write(o, None, sch)

SpecScope == Init /\ [][NextScope]_vars

----------------------------------------------------------------------------
(* SpecPair: two objects on the one file F, which holds {a: 1}.            *)

PairSchema == Schema({"b"})

PairInit ==
    /\ files = [p \in Paths |->
                 IF p = "F" THEN to_yaml([k \in {"a"} |-> IntV("1")])
                 ELSE Absent]
    /\ locks = [p \in Paths |-> Free]
    /\ obj = [o \in Objs |-> Unborn]
    /\ scopes = [o \in Objs |-> <<>>]
    /\ last = NoCall

PairArgs ==
    {[DefaultArgs EXCEPT !.filepath = "F", !.writable = w,
                         !.skip_read_lock = s]
       : w \in BOOLEAN, s \in BOOLEAN}

NextPair ==
    \E o \in Objs :
        \/ \E a \in PairArgs : Construct(o, a)
        \/ Destroy(o)
        \/ SetItem(o, "b", IntV("1"))
        \/ MakeWritable(o, None)
        \/ MakeReadonly(o)
        \/ Enter(o)
        \/ Exit(o)
        \/ Validate(o, PairSchema)
        \/ Write(o, None, NoSchema)

SpecPair == PairInit /\ [][NextPair]_vars

----------------------------------------------------------------------------
(* SpecMerge: one object on F with any data of MergeMaps in memory and any *)
(* document of MergeMaps on disk (the object was constructed and edited,   *)
(* the file was rewritten by another process), then made writable.         *)

Leaves == {IntV("1"), IntV("2")}
\* every function from a subset of keys to vals
MapsOver(keys, vals) == UNION {[d -> vals] : d \in SUBSET keys}
\* values two levels below the top: scalars, {} and {a: 1}
Level2 == Leaves \cup {MapV(m) : m \in MapsOver({"a"}, {IntV("1")})}
\* values under key "a": scalars and mappings of Level2 values
Level1 == Leaves \cup {MapV(m) : m \in MapsOver({"a", "b"}, Level2)}
\* top-level data: "a" holds any Level1 value, "b" a scalar
MergeMaps ==
    {m \in MapsOver({"a", "b"}, Level1) : "b" \in DOMAIN m => m["b"] \in Leaves}

MergeInit ==
    /\ \E d \in MergeMaps :
          files = [p \in Paths |-> IF p = "F" THEN to_yaml(d) ELSE Absent]
    /\ locks = [p \in Paths |-> Free]
    /\ \E m \in MergeMaps :
          obj = [o \in Objs |->
                   IF o = "A"
                   THEN [Unborn EXCEPT !.st = "live", !.filepath = "F", !.data = m]
                   ELSE Unborn]
    /\ scopes = [o \in Objs |-> <<>>]
    /\ last = NoCall

NextMerge ==
    \E o \in {"A"} :
        \/ MakeWritable(o, None)
        \/ MakeReadonly(o)
        \/ Enter(o)
        \/ Exit(o)

SpecMerge == MergeInit /\ [][NextMerge]_vars

----------------------------------------------------------------------------
(* SpecInit: one object constructed from a file, from entries or from YAML *)
(* text.  F holds an empty file or a document with a numeric key at two    *)
(* levels; G does not exist.                                               *)

\* a: 1, and under the key written 2 a mapping with the key written 5
NumericKeysDoc == Doc(("a" :> Tok("1")) @@ ("2" :> MapV("5" :> Tok("x"))))
\* YAML text with a key written 2
NumericKeysText == Doc(("one" :> Tok("1")) @@ ("2" :> Tok("two")))

InitInit ==
    /\ \E d \in {EmptyFile, NumericKeysDoc} :
          files = [p \in Paths |-> IF p = "F" THEN d ELSE Absent]
    /\ locks = [p \in Paths |-> Free]
    /\ obj = [o \in Objs |-> Unborn]
    /\ scopes = [o \in Objs |-> <<>>]
    /\ last = NoCall

InitArgs ==
    {[DefaultArgs EXCEPT !.filepath = p, !.entries = e, !.yamldata = y,
                         !.writable = w, !.create_file = c]
       : p \in Paths \cup {None},
         e \in {EmptyMap, ("a" :> StrV("b")) @@ ("b" :> IntV("2"))},
         y \in {Absent, NumericKeysText},
         w \in BOOLEAN, c \in BOOLEAN}

NextInit ==
    \E o \in {"A"} :
        \/ \E a \in InitArgs : Construct(o, a)
        \/ Destroy(o)
        \/ \E k \in {"a", "2", "#2"} : GetItem(o, k)
        \/ \E p \in {None, "F"} : MakeWritable(o, p)
        \/ MakeReadonly(o)
        \/ Write(o, None, NoSchema)

SpecInit == InitInit /\ [][NextInit]_vars

----------------------------------------------------------------------------
(* SpecData: one object on F, its items read, set and deleted, its         *)
(* expanded copy changed, and its data written inside `with` blocks.       *)

\* longest list that the model builds
MaxList == 2

DataKeys == {"a", "b"}
DataValues ==
    {IntV("1"), StrV("5"), StrV("b"), ListV(<<IntV("1")>>),
     MapV("b" :> StrV("~"))}

DataArgs ==
    {[DefaultArgs EXCEPT !.filepath = p, !.entries = e]
       : p \in {None, "F"}, e \in {EmptyMap, "a" :> ListV(<<IntV("1")>>)}}

NextData ==
    \E o \in {"A"} :
        \/ \E a \in DataArgs : Construct(o, a)
        \/ Destroy(o)
        \/ \E k \in DataKeys, v \in DataValues : SetItem(o, k, v)
        \/ \E k \in DataKeys : GetItem(o, k)
        \/ \E k \in DataKeys : DelItem(o, k)
        \/ \E path \in {<<"a">>, <<"a", "b">>} :
              /\ ValueAt(MapV(obj[o].data), path).t = "list"
                    => Len(ValueAt(MapV(obj[o].data), path).v) < MaxList
              /\ ExpAppend(o, path, IntV("2"))
        \/ \E path \in {<<>>, <<"a">>} : ExpSetItem(o, path, "b", IntV("1"))
        \/ Enter(o)
        \/ Exit(o)
        \/ Write(o, None, NoSchema)

SpecData == Init /\ [][NextData]_vars

----------------------------------------------------------------------------
(* SpecAlias: object A is constructed as an AliasedYAMLConfigManager,      *)
(* object B as a YAMLConfigManager from the same arguments.                *)

AliasArgs ==
    {[DefaultArgs EXCEPT !.entries = e, !.filepath = p, !.skip_read_lock = s]
       : e \in {EmptyMap, "bar" :> IntV("1")}, p \in {None, "F"},
         s \in BOOLEAN}

\* the aliases argument: key -> set of aliases
AliasRaw == {EmptyMap, "bar" :> {"foo"}}

AliasNames == {"foo", "bar", "baz"}

NextAlias ==
    \/ \E a \in AliasArgs, raw \in AliasRaw : ConstructAliased("A", a, raw)
    \/ \E a \in AliasArgs : Construct("B", a)
    \/ \E o \in Objs : Destroy(o)
    \/ \E k \in AliasNames, v \in Values : SetItem("B", k, v)
    \/ \E k \in AliasNames : GetItem("B", k)
    \/ \E k \in AliasNames : DelItem("B", k)

SpecAlias == Init /\ [][NextAlias]_vars

----------------------------------------------------------------------------
(* SpecAliasOps: the item methods of the alias layer as functions of the   *)
(* attributes data and aliases, applied to every data of AliasData and     *)
(* every alias table of AliasTables.                                       *)

AliasValues == {IntV("1"), StrV("baz"), StrV("~")}
AliasData == MapsOver(AliasNames, AliasValues)
AliasTables ==
    {EmptyMap, "foo" :> "bar", "foo" :> "baz",
     ("foo" :> "bar") @@ ("baz" :> "bar")}

AliasOpsInit ==
    /\ files = [p \in Paths |-> Absent]
    /\ locks = [p \in Paths |-> Free]
    /\ \E d \in AliasData, al \in AliasTables :
          obj = [o \in Objs |->
                   IF o = "A"
                   THEN [Unborn EXCEPT !.st = "live", !.data = d, !.aliases = al]
                   ELSE Unborn]
    /\ scopes = [o \in Objs |-> <<>>]
    /\ last = NoCall

\* the key and the aliases arguments of set_aliases
AliasKeys == {"bar", "baz"}
AliasLists == {<<"foo">>, <<"foo", "qux">>, <<"qux", "qux">>}

NextAliasOps ==
    \/ \E name \in AliasNames : AliasedGetItem("A", name)
    \/ \E name \in AliasNames : AliasedDelItem("A", name)
    \/ \E key \in AliasKeys, aliases \in AliasLists,
          overwrite \in BOOLEAN, reset_key \in BOOLEAN :
          SetAliases("A", key, aliases, overwrite, reset_key)

SpecAliasOps == AliasOpsInit /\ [][NextAliasOps]_vars

----------------------------------------------------------------------------
(* SpecExpand: one object on F whose key "a" holds a path with ~, an       *)
(* absolute path or a number, validated against a schema for paths.        *)

ExpandValues == {StrV("~"), StrV("/abs"), StrV("rel"), IntV("1")}
\* the value under "a", if a string, must match ^/
HomeSchema == PathSchema({"a"})

NextExpand ==
    \E o \in {"A"} :
        \/ \E a \in ScopeArgs : Construct(o, a)
        \/ Destroy(o)
        \/ \E v \in ExpandValues : SetItem(o, "a", v)
        \/ MakeReadonly(o)
        \/ Enter(o)
        \/ Exit(o)
        \/ Validate(o, HomeSchema)
        \/ Write(o, None, NoSchema)

SpecExpand == Init /\ [][NextExpand]_vars

----------------------------------------------------------------------------
(* SpecReadOnly: one object on F or on R, a file in a directory that       *)
(* cannot be written to.                                                   *)

ReadOnlyInit ==
    /\ files = [p \in Paths \cup ReadOnlyPaths |->
                 IF p = "G" THEN Absent ELSE to_yaml(EmptyMap)]
    /\ locks = [p \in Paths \cup ReadOnlyPaths |-> Free]
    /\ obj = [o \in Objs |-> Unborn]
    /\ scopes = [o \in Objs |-> <<>>]
    /\ last = NoCall

ReadOnlyArgs ==
    {[DefaultArgs EXCEPT !.filepath = p, !.writable = w, !.skip_read_lock = s]
       : p \in {"F", "R"}, w \in BOOLEAN, s \in BOOLEAN}

NextReadOnly ==
    \E o \in {"A"} :
        \/ \E a \in ReadOnlyArgs : Construct(o, a)
        \/ Destroy(o)
        \/ \E k \in Keys, v \in Values : SetItem(o, k, v)
        \/ \E p \in {None, "F", "R"} : MakeWritable(o, p)
        \/ MakeReadonly(o)
        \/ Enter(o)
        \/ Exit(o)
        \/ \E p \in {None, "R"} : Write(o, p, NoSchema)

SpecReadOnly == ReadOnlyInit /\ [][NextReadOnly]_vars

----------------------------------------------------------------------------
(* SpecWait: the wait of create_lock in steps.  A call that reaches        *)
(* create_lock polls the sentinel: while it exists the call sleeps, and    *)
(* when the time slept has reached wait_max the call raises; when the      *)
(* sentinel is gone the call goes on.  Two objects on F.                   *)

\* the time one sleep of the polling loop takes
PollTime == 30
\* wait_max arguments of the constructor
WaitTimes == {PollTime, DEFAULT_WAIT_TIME}

\* a polling loop that never gives up
timed_out_never(waited, wait_max) == FALSE
\* the loop's exit after a sleep: totaltime >= wait_max
timed_out(waited, wait_max) == waited >= wait_max

\* the wait_max that the pending call passes to create_lock
WaitMax(self) ==
    IF self.pending.op = "construct" THEN self.pending.args.wait_max
    ELSE self.wait_max

(* the path on which the call reaches create_lock (None: it returns or     *)
(* raises before): __init__ lines 122-135, make_writable lines 414-423,    *)
(* write lines 272-284                                                     *)
LockPath(self, op, arg, a, fs, lk) ==
    IF op = "construct"
    THEN IF a.filepath # None
            /\ (a.writable \/ needs_read_lock(a, init_writable(a), fs))
         THEN a.filepath ELSE None
    ELSE IF op \in {"make_writable", "enter"}
    THEN LET s1 == reset_filepath(self, arg)
         IN  IF s1.writable \/ check_filepath_raises(s1.filepath) THEN None
             ELSE s1.filepath
    ELSE IF arg = None \/ (Exists(fs, arg) /\ lk[arg] # Free) THEN None
    ELSE arg

\* the call op of object o reaches create_lock
Begin(o, op, arg, a) ==
    /\ IF op = "construct" THEN obj[o].st = "unborn" ELSE Live(o)
    /\ op = "enter" => Len(scopes[o]) < MaxDepth
    /\ LET path == LockPath(obj[o], op, arg, a, files, locks)
       IN  /\ path # None
           /\ obj' = [obj EXCEPT ![o].st = "waiting",
                                 ![o].pending = PendingCall(op, arg, a, path),
                                 ![o].waited = 0]
           /\ last' = Call("create_lock", o, "ok", path, FALSE,
                           obj[o].writable, FALSE)
    /\ UNCHANGED <<files, locks, scopes>>

Waiting(o) == obj[o].st = "waiting"

\* the sentinel exists and the time is not up: one more sleep
Poll(o) ==
    /\ Waiting(o)
    /\ locks[obj[o].pending.path] # Free
    /\ ~timed_out(obj[o].waited, WaitMax(obj[o]))
    /\ obj[o].waited < DEFAULT_WAIT_TIME
    /\ obj' = [obj EXCEPT ![o].waited = @ + PollTime]
    /\ last' = Call("sleep", o, "ok", obj[o].pending.path, FALSE,
                    obj[o].writable, FALSE)
    /\ UNCHANGED <<files, locks, scopes>>

(* create_lock returns or raises and the call runs to its end; ret tells   *)
(* whether create_lock found no sentinel and created its own.              *)
Finish(o) ==
    /\ Waiting(o)
    /\ LET c == obj[o].pending
           free == locks[c.path] = Free
           self == [obj[o] EXCEPT !.st = "live", !.pending = NoPending,
                                  !.waited = 0]
           ends ==
             IF c.op = "construct"
             THEN LET r == YcmInit(o, Unborn, c.args, files, locks)
                  IN  {[r EXCEPT !.self.st =
                                   IF r.res = "ok" THEN "live" ELSE "failed"]}
             ELSE IF c.op = "make_writable"
             THEN make_writable(o, self, c.arg, files, locks)
             ELSE IF c.op = "enter" THEN enter(o, self, files, locks)
             ELSE IF ~free THEN {Out(self, files, locks, LockTimeout)}
             ELSE {write(o, self, c.arg, NoSchema, files, locks)}
       IN  /\ free \/ timed_out(obj[o].waited, WaitMax(obj[o]))
           /\ \E r \in ends :
                 /\ Commit(o, r)
                 /\ last' = [Call(c.op, o, r.res, c.arg, FALSE,
                                  obj[o].writable, free)
                               EXCEPT !.args = c.args]
                 /\ scopes' = IF c.op = "enter" /\ r.res = "ok"
                              THEN [scopes EXCEPT ![o] = Append(@, obj[o].writable)]
                              ELSE scopes

WaitArgs ==
    {[DefaultArgs EXCEPT !.filepath = "F", !.writable = w, !.wait_max = t]
       : w \in BOOLEAN, t \in WaitTimes}

NextWait ==
    \E o \in Objs :
        \/ \E a \in WaitArgs : Begin(o, "construct", None, a)
        \/ Begin(o, "make_writable", None, DefaultArgs)
        \/ Begin(o, "enter", None, DefaultArgs)
        \/ Begin(o, "write", "F", DefaultArgs)
        \/ Poll(o)
        \/ Finish(o)
        \/ MakeReadonly(o)
        \/ Exit(o)
        \/ Destroy(o)

(* The thread of a call that is inside create_lock keeps running: its next *)
(* poll or its return is taken.  No other call need ever be made.          *)
SpecWait ==
    /\ Init /\ [][NextWait]_vars
    /\ \A o \in Objs : WF_vars(Poll(o) \/ Finish(o))

----------------------------------------------------------------------------
(* Claims *)

\* the sentinel of the object's current filepath exists
HasLock(o) == obj[o].filepath # None /\ locks[obj[o].filepath] # Free

(* C1: in every reachable state, a writable object has a lock sentinel at  *)
(* the lock path of its current filepath.                                  *)
C1_WritableImpliesLock ==
    \A o \in Objs : Live(o) /\ obj[o].writable => HasLock(o)

(* C2: at most one of the objects bound to one file path is writable.     *)
C2_OneWriter ==
    \A o1 \in Objs, o2 \in Objs :
        (/\ o1 # o2 /\ Live(o1) /\ Live(o2)
         /\ obj[o1].filepath = obj[o2].filepath)
        => ~(obj[o1].writable /\ obj[o2].writable)

(* C3: write() with no path on a file-backed object that is not writable   *)
(* raises OSError and leaves every file as it was.                         *)
C3_NoWriteOutsideScope ==
    [][\A o \in Objs :
         (/\ last'.op = "write" /\ last'.o = o /\ last'.arg = None
          /\ Live(o) /\ obj[o].filepath # None /\ ~obj[o].writable)
         => (last'.res = "OSError" /\ files' = files)]_vars

\* a refused write() of an object whose data differs from its file
C3_Witness ==
    /\ last.op = "write" /\ last.arg = None /\ last.res = "OSError"
    /\ ~last.w0
    /\ obj[last.o].filepath # None
    /\ to_yaml(obj[last.o].data) # files[obj[last.o].filepath]

(* C4: after the exit of a scope that was entered on a file-backed object  *)
(* that was not writable, the object is not writable and no sentinel is    *)
(* left at its lock path.                                                  *)
C4_ScopeReleases ==
    (last.op = "exit" /\ ~last.ew)
    => (~obj[last.o].writable /\ ~HasLock(last.o))

(* C5: after the exit of a scope that was entered on a writable object,    *)
(* the object is writable and its sentinel is present.                     *)
C5_ScopeKeeps ==
    (last.op = "exit" /\ last.ew)
    => (obj[last.o].writable /\ HasLock(last.o))

\* the data that load_yaml gives for the document at path p
Loaded(fs, p) ==
    LET ld == load_yaml(fs[p])
    IN  IF ld.val.t = "none" THEN EmptyMap ELSE ld.val.v

(* The deep merge the specification describes: a key path of mem keeps its *)
(* value, a key path only on disk takes the disk value, and two non-empty  *)
(* mappings at one key are merged by the same rule.                        *)
RECURSIVE DeepMerge(_, _)
DeepMerge(disk, mem) ==
    [k \in DOMAIN disk \cup DOMAIN mem |->
        IF k \notin DOMAIN mem THEN disk[k]
        ELSE IF k \notin DOMAIN disk THEN mem[k]
        ELSE IF IsNonEmptyMap(disk[k]) /\ IsNonEmptyMap(mem[k])
        THEN MapV(DeepMerge(disk[k].v, mem[k].v))
        ELSE mem[k]]

(* C6: when make_writable or scope entry succeeds on a read-only object,   *)
(* its data becomes the deep merge of the file's content with its former   *)
(* data.                                                                   *)
C6_ReloadIsDeepMerge ==
    [][\A o \in Objs :
         (/\ last'.op \in {"enter", "make_writable"} /\ last'.o = o
          /\ last'.res = "ok" /\ Live(o) /\ ~obj[o].writable
          /\ obj[o].filepath # None)
         => obj'[o].data = DeepMerge(Loaded(files, obj'[o].filepath),
                                     obj[o].data)]_vars

(* C7: while another object's sentinel is on the file, make_writable and   *)
(* scope entry of a read-only object end in the lock timeout and leave the *)
(* object not writable, its data, the sentinel and the scopes as they      *)
(* were; with no sentinel on the file they succeed and take the lock.      *)
C7_LockExclusive ==
    [][\A o \in Objs :
         (/\ last'.op \in {"enter", "make_writable"} /\ last'.o = o
          /\ Live(o) /\ ~obj[o].writable /\ obj[o].filepath # None)
         => LET fp == obj[o].filepath
            IN  /\ locks[fp] \notin {Free, o}
                     => /\ last'.res = LockTimeout
                        /\ ~obj'[o].writable
                        /\ obj'[o].data = obj[o].data
                        /\ locks' = locks
                        /\ scopes' = scopes
                /\ locks[fp] = Free
                     => /\ last'.res = "ok"
                        /\ obj'[o].writable
                        /\ locks'[fp] = o]_vars

\* B timed out behind writable A's sentinel; a reload would have changed B
C7_Witness ==
    /\ last.op = "make_writable" /\ last.o = "B" /\ last.res = LockTimeout
    /\ Live("A") /\ obj["A"].writable /\ locks["F"] = "A"
    /\ Live("B") /\ obj["B"].filepath = "F" /\ ~obj["B"].writable
    /\ ~(DOMAIN Loaded(files, "F") \subseteq DOMAIN obj["B"].data)

(* C8: make_readonly never raises, and on an object that is not writable   *)
(* it returns false, changes no object and removes no sentinel.            *)
C8_ReadonlySafe ==
    [][\A o \in Objs :
         (last'.op = "make_readonly" /\ last'.o = o /\ Live(o))
         => /\ last'.res = "ok"
            /\ ~obj[o].writable
                 => (~last'.ret /\ obj' = obj /\ locks' = locks)]_vars

(* C9: scope entry and make_writable() on an object with no filepath raise *)
(* TypeError, open no scope, create no sentinel and leave the object, its  *)
(* data and its writable flag (false) as they were.                        *)
C9_NoFilepathTypeError ==
    [][\A o \in Objs :
         (/\ last'.op \in {"enter", "make_writable"} /\ last'.o = o
          /\ last'.arg = None /\ Live(o) /\ obj[o].filepath = None)
         => /\ last'.res = "TypeError"
            /\ scopes' = scopes /\ locks' = locks /\ files' = files
            /\ obj'[o] = obj[o] /\ ~obj'[o].writable]_vars

\* a refused scope entry on a memory-only object that holds data
C9_Witness ==
    /\ last.op = "enter" /\ last.res = "TypeError"
    /\ obj[last.o].filepath = None
    /\ obj[last.o].data # EmptyMap
    /\ scopes[last.o] = <<>>

(* C10: write() on a writable object with validate_on_write set whose data *)
(* violates the schema raises ValidationError, leaves the files as they    *)
(* were and leaves the object not writable and without its sentinel.       *)
C10_InvalidWriteReleases ==
    [][\A o \in Objs :
         (/\ last'.op = "write" /\ last'.o = o /\ last'.arg = None
          /\ Live(o) /\ obj[o].writable /\ obj[o].validate_on_write
          /\ ~SchemaValid(obj[o].data, ConfigSchema))
         => /\ last'.res = "ValidationError"
            /\ files' = files
            /\ ~obj'[o].writable
            /\ obj'[o].filepath # None => locks'[obj'[o].filepath] = Free]_vars

(* C11: write(path) raises OSError exactly when a sentinel of another      *)
(* holder lies at path's lock path; otherwise, the object's own sentinel   *)
(* included, it succeeds and path holds the serialized data; when it       *)
(* raises OSError the files are as they were.                              *)
C11_WritePathDeniedIffForeignLock ==
    [][\A o \in Objs :
         (last'.op = "write" /\ last'.o = o /\ last'.arg # None /\ Live(o))
         => LET p == last'.arg
                foreign == locks[p] \notin {Free, o}
            IN  /\ (last'.res = "OSError") <=> foreign
                /\ ~foreign => /\ last'.res = "ok"
                               /\ files'[p] = to_yaml(obj[o].data)
                /\ last'.res = "OSError" => files' = files]_vars

\* the data of a fresh object constructed on the file at path p
FreshData(fs, lk, p) ==
    YcmInit("B", Unborn,
            [DefaultArgs EXCEPT !.filepath = p, !.skip_read_lock = TRUE],
            fs, lk).self.data

(* C12: a write() that succeeds inside a `with` block leaves a file from   *)
(* which a fresh object gets the writer's data as they were at the write,  *)
(* and when the outermost block, entered on a read-only object, is left,   *)
(* no sentinel remains at the path.                                        *)
C12_ScopedWritePersists ==
    [][\A o \in Objs :
         /\ (/\ last'.op = "write" /\ last'.o = o /\ last'.arg = None
             /\ last'.res = "ok" /\ scopes[o] # <<>>)
            => FreshData(files', locks', obj[o].filepath) = obj[o].data
         /\ (/\ last'.op = "exit" /\ last'.o = o /\ ~last'.ew
             /\ scopes'[o] = <<>>)
            => locks'[obj[o].filepath] = Free]_vars

(* C13: a live object with no filepath is never writable, and a            *)
(* construction with no filepath, writable requested or not, gives an      *)
(* object that is not writable and creates no sentinel.                    *)
C13_DetachedNeverWritable ==
    [][\A o \in Objs :
         /\ (obj'[o].st = "live" /\ obj'[o].filepath = None)
            => ~obj'[o].writable
         /\ (/\ last'.op = "construct" /\ last'.o = o
             /\ last'.args.filepath = None)
            => (~obj'[o].writable /\ locks' = locks)]_vars

\* constructed from YAML text with writable requested
C13_Witness ==
    /\ last.op = "construct" /\ last.res = "ok"
    /\ last.args.filepath = None /\ last.args.writable
    /\ last.args.yamldata # Absent
    /\ ~obj[last.o].writable /\ obj[last.o].data # EmptyMap

(* C14: a construction, writable not requested, from an existing file      *)
(* whose sentinel another object holds ends in the lock timeout unless     *)
(* skip_read_lock is set, and then it succeeds; the sentinel stays.        *)
C14_ReadLockOnConstruction ==
    [][\A o \in Objs :
         (/\ last'.op = "construct" /\ last'.o = o
          /\ last'.args.filepath # None /\ ~last'.args.writable
          /\ Exists(files, last'.args.filepath)
          /\ locks[last'.args.filepath] \notin {Free, o})
         => /\ locks' = locks
            /\ ~last'.args.skip_read_lock => last'.res = LockTimeout
            /\ last'.args.skip_read_lock
                 => (last'.res = "ok" /\ obj'[o].st = "live")]_vars

\* an object was constructed past the sentinel of a writable object
C14_Witness ==
    /\ last.op = "construct" /\ last.res = "ok" /\ last.args.skip_read_lock
    /\ ~last.args.writable
    /\ \E h \in Objs \ {last.o} :
          /\ Live(h) /\ obj[h].writable
          /\ locks[last.args.filepath] = h

(* C15: a successful construction from an existing file, writable not      *)
(* requested, gives an object that is not writable and leaves the lock     *)
(* path as it was: without a sentinel when the read lock was taken, and    *)
(* never with a sentinel of the new object.                                *)
C15_ReadLockReleased ==
    [][\A o \in Objs :
         (/\ last'.op = "construct" /\ last'.o = o /\ last'.res = "ok"
          /\ last'.args.filepath # None /\ ~last'.args.writable
          /\ Exists(files, last'.args.filepath))
         => LET fp == last'.args.filepath
            IN  /\ obj'[o].st = "live" /\ ~obj'[o].writable
                /\ locks' = locks
                /\ locks[fp] # Free => last'.args.skip_read_lock
                /\ ~last'.args.skip_read_lock => locks'[fp] = Free]_vars

\* constructed under the read lock, the file's data loaded
C15_Witness ==
    /\ last.op = "construct" /\ last.res = "ok"
    /\ last.args.filepath = "F" /\ ~last.args.writable
    /\ ~last.args.skip_read_lock
    /\ obj[last.o].data # EmptyMap /\ locks["F"] = Free

(* C16: a construction from a filepath that does not exist raises          *)
(* FileNotFoundError and creates no file, unless create_file is set: then  *)
(* it succeeds, the file exists and data holds the entries.  (No schema    *)
(* is given, and the write lock, when requested, is free.)                 *)
C16_MissingFile ==
    [][\A o \in Objs :
         (/\ last'.op = "construct" /\ last'.o = o
          /\ last'.args.filepath # None
          /\ ~Exists(files, last'.args.filepath)
          /\ last'.args.schema_source = None
          /\ last'.args.writable => locks[last'.args.filepath] = Free)
         => LET a == last'.args
            IN  /\ ~a.create_file
                     => (last'.res = "FileNotFoundError" /\ files' = files)
                /\ a.create_file
                     => /\ last'.res = "ok" /\ obj'[o].st = "live"
                        /\ Exists(files', a.filepath)
                        /\ obj'[o].data = a.entries]_vars

\* a file was created for an object constructed with entries
C16_Witness ==
    /\ last.op = "construct" /\ last.res = "ok"
    /\ last.args.filepath = "G" /\ last.args.create_file
    /\ last.args.entries # EmptyMap
    /\ Exists(files, "G") /\ obj[last.o].data = last.args.entries

\* the mapping that a document loads as; an empty or absent one is empty
LoadedDoc(f) ==
    IF f.st = "absent" \/ load_yaml(f).val.t = "none" THEN EmptyMap
    ELSE load_yaml(f).val.v

\* base with the items of top laid over it
Overlay(base, top) ==
    [k \in DOMAIN base \cup DOMAIN top |->
        IF k \in DOMAIN top THEN top[k] ELSE base[k]]

(* C17: after a successful construction with a filepath, data is the       *)
(* file's content with the entries laid over it, whatever yamldata is;     *)
(* with no filepath, data is the YAML text's content when a text is given  *)
(* and the entries otherwise.                                              *)
C17_ConstructionPriority ==
    [][\A o \in Objs :
         (last'.op = "construct" /\ last'.o = o /\ last'.res = "ok")
         => LET a == last'.args
            IN  obj'[o].data =
                  IF a.filepath # None
                  THEN Overlay(LoadedDoc(files[a.filepath]), a.entries)
                  ELSE IF a.yamldata # Absent THEN LoadedDoc(a.yamldata)
                  ELSE a.entries]_vars

\* file, entries and YAML text all given: the entry replaced the file's "a"
C17_Witness ==
    /\ last.op = "construct" /\ last.res = "ok"
    /\ last.args.filepath = "F" /\ last.args.yamldata # Absent
    /\ last.args.entries # EmptyMap
    /\ "a" \in DOMAIN LoadedDoc(files["F"])
    /\ LoadedDoc(files["F"])["a"] # last.args.entries["a"]
    /\ obj[last.o].data["a"] = last.args.entries["a"]
    /\ "2" \in DOMAIN obj[last.o].data
    /\ "one" \notin DOMAIN obj[last.o].data

(* C18: changing what the expansion accessor returned, a list or a mapping *)
(* at any depth of it, leaves the object's data as they were.              *)
C18_ExpansionIsACopy ==
    [][\A o \in Objs :
         (last'.op \in {"exp_append", "exp_setitem"} /\ last'.o = o)
         => obj'[o].data = obj[o].data]_vars

(* C19: del of a present key succeeds and removes that key and nothing     *)
(* else, whatever its value; get and del of an absent key raise KeyError   *)
(* and leave data as they were.                                            *)
C19_DeleteRemovesOneKey ==
    [][\A o \in Objs :
         (last'.op \in {"getitem", "delitem"} /\ last'.o = o)
         => LET d == obj[o].data
                k == last'.key
            IN  IF k \notin DOMAIN d
                THEN last'.res = "KeyError" /\ obj'[o].data = d
                ELSE /\ last'.res = "ok"
                     /\ obj'[o].data = IF last'.op = "delitem"
                                       THEN Without(d, k) ELSE d]_vars

\* no mapping in x, at any level, has an int key
RECURSIVE AllStrKeys(_)
AllStrKeys(x) ==
    x.t = "map" => /\ DOMAIN x.v \cap IntKeys = {}
                   /\ \A k \in DOMAIN x.v : AllStrKeys(x.v[k])

\* the document that a construction with arguments a loads
SourceDoc(a, fs) ==
    IF a.filepath # None THEN fs[a.filepath] ELSE a.yamldata

(* C20: after a successful construction from a file or from YAML text the  *)
(* keys of data are strs at every level: each key written in the document  *)
(* is found by its text, and the int that the text of a numeric key        *)
(* denotes is not a key (KeyError).                                        *)
C20_LoadedKeysAreStrings ==
    [][\A o \in Objs :
         (last'.op = "construct" /\ last'.o = o /\ last'.res = "ok")
         => LET d == obj'[o].data
                src == SourceDoc(last'.args, files)
            IN  /\ AllStrKeys(MapV(d))
                /\ src.st = "doc"
                     => \A t \in DOMAIN src.doc :
                          /\ getitem(d, t).res = "ok"
                          /\ t \in IntTokens
                               => getitem(d, IntKey(t)).res = "KeyError"]_vars

\* lookup by the int 2 failed on data loaded with the key "2" at the top
\* and the key "5" below it
C20_Witness ==
    /\ last.op = "getitem" /\ last.key = "#2" /\ last.res = "KeyError"
    /\ "2" \in DOMAIN obj[last.o].data
    /\ obj[last.o].data["2"].t = "map"
    /\ "5" \in DOMAIN obj[last.o].data["2"].v

(* C21: destroying an object that is writable and has a filepath leaves    *)
(* no sentinel at its path; after an object is destroyed no sentinel that  *)
(* it created is left; the destruction removes no sentinel that another    *)
(* object created, and none at all when the object is not writable.        *)
C21_DestroyReleasesOwnLock ==
    [][\A o \in Objs :
          (last'.op = "del" /\ last'.o = o) =>
             /\ (obj[o].writable /\ obj[o].filepath # None)
                   => locks'[obj[o].filepath] = Free
             /\ \A p \in Paths : locks'[p] # o
             /\ \A p \in Paths : locks[p] \notin {Free, o} => locks'[p] = locks[p]
             /\ ~obj[o].writable => locks' = locks]_vars

(* C24: make_writable on an object that is already writable changes        *)
(* nothing, whatever its filepath argument: the call raises nothing, and   *)
(* the writable flag, the filepath, the data, the sentinels and the files  *)
(* are as before.                                                          *)
C24_MakeWritableIdempotent ==
    [][\A o \in Objs :
          (last'.op = "make_writable" /\ last'.o = o /\ obj[o].writable) =>
             /\ last'.res = "ok"
             /\ obj'[o].writable = obj[o].writable
             /\ obj'[o].filepath = obj[o].filepath
             /\ obj'[o].data = obj[o].data
             /\ locks' = locks
             /\ files' = files]_vars

(* C25: a validate() that fails on an object with a filepath releases the  *)
(* lock of that object only: a writable object is left not writable with   *)
(* no sentinel at its path, and stays so when the `with` block around the  *)
(* call is left; for an object that is not writable no sentinel changes.   *)
C25_FailedValidateReleasesOwnLock ==
    [][\A o \in Objs :
          /\ (/\ last'.op = "validate" /\ last'.o = o
              /\ last'.res = "ValidationError" /\ obj[o].filepath # None) =>
                /\ obj[o].writable =>
                      ~obj'[o].writable /\ locks'[obj[o].filepath] = Free
                /\ ~obj[o].writable => locks' = locks
          /\ (/\ last.op = "validate" /\ last.o = o
              /\ last.res = "ValidationError" /\ obj[o].filepath # None
              /\ last'.op = "exit" /\ last'.o = o) =>
                ~obj'[o].writable]_vars

(* C27: a write(filepath) that succeeds leaves no sentinel at that path,   *)
(* leaves the object as it was (writable flag, filepath, data) and leaves  *)
(* every other sentinel, that of the object's own file included, as it     *)
(* was.                                                                    *)
C27_WritePathLeavesNoLock ==
    [][\A o \in Objs :
          (/\ last'.op = "write" /\ last'.o = o
           /\ last'.arg # None /\ last'.res = "ok") =>
             /\ locks'[last'.arg] = Free
             /\ obj'[o] = obj[o]
             /\ \A p \in Paths \ {last'.arg} : locks'[p] = locks[p]
             /\ obj[o].filepath # None
                   => locks'[obj[o].filepath] = locks[obj[o].filepath]]_vars

\* a writable object that holds its sentinel has written to another path
C27_Witness ==
    /\ last.op = "write" /\ last.arg # None /\ last.res = "ok"
    /\ obj[last.o].writable
    /\ HasLock(last.o)
    /\ obj[last.o].filepath # last.arg
    /\ Exists(files, last.arg)

\* the key that the alias-aware lookup of name reads (None: KeyError)
ResolvedKey(d, al, name) ==
    IF name \in DOMAIN d THEN name
    ELSE IF name \in DOMAIN al /\ al[name] \in DOMAIN d THEN al[name]
    ELSE None

(* C22: an AliasedYAMLConfigManager built from entries and an aliases      *)
(* mapping exists, and its lookup of a name returns the value under the    *)
(* literal key, else the value under the key whose alias the name is, and  *)
(* raises KeyError when the name is neither; so the lookup of an alias     *)
(* returns what the lookup of its key returns.                             *)
C22_AliasGet ==
    [][\A o \in Objs :
          (/\ last'.op = "construct_aliased" /\ last'.o = o
           /\ last'.args.filepath = None) =>
             /\ last'.res = "ok"
             /\ \A name \in AliasNames :
                  LET d == obj'[o].data
                      al == obj'[o].aliases
                      g == aliased_getitem(d, al, name)
                      key == ResolvedKey(d, al, name)
                  IN  /\ (g.res = "KeyError") <=> (key = None)
                      /\ key # None => g = aliased_getitem(d, al, key)]_vars

(* C23: in the alias layer, deleting a name that is a key or an alias of a *)
(* key removes the key that the lookup of that name reads and no other     *)
(* key; when no alias is also a key, the lookup of the name fails          *)
(* afterwards.                                                             *)
C23_AliasDelete ==
    [][\A o \in Objs :
          LET d == obj[o].data
              al == obj[o].aliases
              key == ResolvedKey(d, al, last'.key)
          IN  (last'.op = "aliased_delitem" /\ last'.o = o /\ key # None) =>
                 /\ last'.res = "ok"
                 /\ obj'[o].data = Without(d, key)
                 /\ DOMAIN al \cap DOMAIN d = {}
                       => aliased_getitem(obj'[o].data, al, last'.key).res
                             = "KeyError"]_vars

\* a rebase that is a call of _reinit, which runs __init__ again
rebase_by_reinit(id, self, fs, lk) ==
    CHOOSE r \in reinit(id, self, None, fs, lk) : TRUE

(* rebase(): the tests call it and yacman.py does not define it.  By the   *)
(* specification it needs a filepath, fails with FileNotFound when the     *)
(* file is absent, and otherwise lays the in-memory data over the reloaded *)
(* content of the file, without touching the lock state.                   *)
rebase(id, self, fs, lk) ==
    IF ~Exists(fs, self.filepath) THEN Out(self, fs, lk, "FileNotFoundError")
    ELSE IF load_yaml(fs[self.filepath]).res # "ok"
    THEN Out(self, fs, lk, load_yaml(fs[self.filepath]).res)
    ELSE Out([self EXCEPT !.data = DeepMerge(Loaded(fs, self.filepath), @)],
             fs, lk, "ok")

\* o.rebase()
Rebase(o) ==
    /\ Live(o)
    /\ obj[o].filepath # None
    /\ LET r == rebase(o, obj[o], files, locks)
       IN  /\ Commit(o, r)
           /\ last' = Call("rebase", o, r.res, None, FALSE, obj[o].writable,
                           FALSE)
    /\ UNCHANGED scopes

(* SpecRebase: one object on F or on the absent G, edited, rebased and     *)
(* written inside and outside `with` blocks.                               *)
RebaseArgs ==
    {[DefaultArgs EXCEPT !.filepath = p, !.writable = w, !.create_file = c]
       : p \in Paths, w \in BOOLEAN, c \in BOOLEAN}

NextRebase ==
    \E o \in {"A"} :
        \/ \E a \in RebaseArgs : Construct(o, a)
        \/ Destroy(o)
        \/ \E k \in {"a", "b"} : SetItem(o, k, IntV("1"))
        \/ Rebase(o)
        \/ MakeReadonly(o)
        \/ Enter(o)
        \/ Exit(o)
        \/ Write(o, None, NoSchema)

SpecRebase == Init /\ [][NextRebase]_vars

C30_ValidateChecksExpanded ==
    [][\A o \in Objs :
          (last'.op = "validate" /\ last'.o = o /\ last'.sch) =>
             /\ (last'.res = "ok") <=>
                   SchemaValid(safely_expand_path(MapV(obj[o].data)).v,
                               HomeSchema)
             /\ last'.res = "ok" => (obj' = obj /\ locks' = locks)]_vars

(* C29: when the creation of the sentinel is refused, make_writable and    *)
(* scope entry of an object that is not writable end in that error: no     *)
(* `with` block is opened, the object stays not writable, and its data,    *)
(* the sentinels and the files are as before.                              *)
C29_RefusedLockPropagates ==
    [][\A o \in Objs :
          LET fp == IF last'.arg # None THEN last'.arg ELSE obj[o].filepath
          IN  (/\ last'.op \in {"make_writable", "enter"} /\ last'.o = o
               /\ ~obj[o].writable /\ fp # None /\ Refused(fp)) =>
                 /\ last'.res = PermissionError
                 /\ ~obj'[o].writable
                 /\ obj'[o].data = obj[o].data
                 /\ scopes' = scopes
                 /\ locks' = locks
                 /\ files' = files]_vars

\* scope entry of an edited object on the read-only path was refused
C29_Witness ==
    /\ last.op = "enter" /\ last.res = PermissionError
    /\ obj[last.o].filepath \in ReadOnlyPaths
    /\ obj[last.o].data # EmptyMap
    /\ ~obj[last.o].writable
    /\ scopes[last.o] = <<>>

(* C28: every call that has reached create_lock (in the constructor, in    *)
(* make_writable, in scope entry or in write with a filepath) comes to an  *)
(* end, whether or not the holder of the sentinel ever removes it: it has  *)
(* created its sentinel, or it has raised the lock timeout.                *)
C28_AcquisitionTerminates ==
    \A o \in Objs :
        Waiting(o) ~>
            (/\ ~Waiting(o)
             /\ last.o = o
             /\ last.op \in {"construct", "make_writable", "enter", "write"}
             /\ (last.ret \/ last.res = LockTimeout))

\* a call has slept while another object's sentinel was on the file
C28_Witness ==
    \E o \in Objs :
        /\ Waiting(o)
        /\ obj[o].waited >= PollTime
        /\ locks[obj[o].pending.path] \notin {Free, o}

(* C31: set_aliases(key, aliases, overwrite, reset_key) leaves a table in  *)
(* which every alias has one key: an alias of the list that was bound to   *)
(* another key keeps that key unless overwrite is set, and is bound to key *)
(* otherwise; with reset_key the aliases that were bound to key and are    *)
(* not in the list are gone; every other alias keeps its key, no alias     *)
(* outside the list is added, and data is as before.                       *)
C31_SetAliases ==
    [][\A o \in Objs :
          LET al == obj[o].aliases
              new == obj'[o].aliases
              key == last'.key
              given == Elems(last'.opts.aliases)
          IN  (last'.op = "set_aliases" /\ last'.o = o) =>
                 /\ DOMAIN new \subseteq DOMAIN al \cup given
                 /\ \A a \in given :
                       /\ a \in DOMAIN new
                       /\ new[a] = IF a \in DOMAIN al /\ al[a] # key
                                       /\ ~last'.opts.overwrite
                                   THEN al[a] ELSE key
                 /\ \A a \in DOMAIN al \ given :
                       IF al[a] = key /\ last'.opts.reset_key
                       THEN a \notin DOMAIN new
                       ELSE a \in DOMAIN new /\ new[a] = al[a]
                 /\ obj'[o].data = obj[o].data]_vars

(* a call without overwrite has kept the alias of another key and bound a  *)
(* new alias to its key                                                    *)
C31_Witness ==
    /\ last.op = "set_aliases"
    /\ ~last.opts.overwrite /\ last.opts.reset_key
    /\ last.opts.aliases = <<"foo", "qux">>
    /\ last.key = "bar"
    /\ "foo" \in DOMAIN obj[last.o].aliases
    /\ obj[last.o].aliases["foo"] = "baz"
    /\ obj[last.o].aliases["qux"] = "bar"
    /\ "baz" \notin DOMAIN obj[last.o].aliases

(* C32: make_writable and scope entry leave the object's settings as they  *)
(* were: wait_max, skip_read_lock, validate_on_write and schema_source     *)
(* have the values they had before the call.                               *)
C32_SettingsKept ==
    [][\A o \in Objs :
          (last'.op \in {"make_writable", "enter"} /\ last'.o = o) =>
             /\ obj'[o].wait_max = obj[o].wait_max
             /\ obj'[o].skip_read_lock = obj[o].skip_read_lock
             /\ obj'[o].validate_on_write = obj[o].validate_on_write
             /\ obj'[o].schema_source = obj[o].schema_source]_vars

(* C33: a constructor, make_writable or scope entry that ends with an     *)
(* error leaves behind no lock sentinel it created, and the object is not  *)
(* writable: every sentinel the object holds after the failed call it held *)
(* before the call.                                                        *)
C33_FailureLeavesNoLock ==
    [][\A o \in Objs :
          (/\ last'.op \in {"construct", "make_writable", "enter"}
           /\ last'.o = o
           /\ last'.res # "ok") =>
             /\ \A p \in DOMAIN locks : locks'[p] = o => locks[p] = o
             /\ ~obj'[o].writable]_vars

----------------------------------------------------------------------------
(* SpecFail: one object and two paths.  F holds text that YAML cannot      *)
(* parse, G is absent: constructions and acquisitions can fail after the   *)
(* sentinel was created.                                                   *)

FailInit ==
    /\ files = [p \in Paths |-> IF p = "F" THEN Corrupt ELSE Absent]
    /\ locks = [p \in Paths |-> Free]
    /\ obj = [o \in Objs |-> Unborn]
    /\ scopes = [o \in Objs |-> <<>>]
    /\ last = NoCall

FailArgs ==
    {[DefaultArgs EXCEPT !.filepath = p, !.writable = w,
                         !.skip_read_lock = s, !.create_file = c]
       : p \in Paths \cup {None}, w \in BOOLEAN, s \in BOOLEAN,
         c \in BOOLEAN}

NextFail ==
    \E o \in {"A"} :
        \/ \E a \in FailArgs : Construct(o, a)
        \/ Destroy(o)
        \/ \E k \in Keys, v \in Values : SetItem(o, k, v)
        \/ \E p \in Paths \cup {None} : MakeWritable(o, p)
        \/ MakeReadonly(o)
        \/ Enter(o)
        \/ Exit(o)
        \/ Write(o, None, NoSchema)

SpecFail == FailInit /\ [][NextFail]_vars

(* C34: a successful write() with no path on a writable object changes     *)
(* nothing but the backing file: the object (data, writable flag,          *)
(* filepath, settings) and every lock sentinel are the same after the call *)
(* as before, the backing file holds the serialization of data and no      *)
(* other file has changed.                                                 *)
C34_WriteOwnFrame ==
    [][\A o \in Objs :
          (/\ last'.op = "write" /\ last'.o = o
           /\ last'.arg = None /\ last'.res = "ok"
           /\ obj[o].writable) =>
             /\ obj'[o] = obj[o]
             /\ locks' = locks
             /\ scopes' = scopes
             /\ files' = [files EXCEPT ![obj[o].filepath] =
                                          to_yaml(obj[o].data)]]_vars

\* a write() with no path has put new, non-empty data into the locked file
C34_Witness ==
    /\ last.op = "write" /\ last.arg = None /\ last.res = "ok" /\ last.w0
    /\ obj[last.o].writable
    /\ obj[last.o].data # EmptyMap
    /\ files[obj[last.o].filepath] = to_yaml(obj[last.o].data)
    /\ locks[obj[last.o].filepath] = last.o

============================================================================
